---- MODULE Spec2Model ----
(***************************************************************************)
(* merch_store: the balance-mutation engine of internal/storage and its    *)
(* callers in internal/app and the HTTP handlers.                          *)
(*                                                                         *)
(* The committed database is users / purchases / transfers.  Each worker   *)
(* is one HTTP request being served; a worker inside BuyItem or            *)
(* TransferCoins owns a PostgreSQL transaction (READ COMMITTED, the        *)
(* database/sql default): its row updates are held in wr[w] together with  *)
(* the row locks, invisible to the other workers until Commit, discarded   *)
(* by the deferred tx.Rollback() on every error return.                    *)
(***************************************************************************)
EXTENDS Integers, Sequences, FiniteSets, TLC

VARIABLES
    users,      \* content.users, committed rows: id -> [username, password, coins]
    nextID,     \* next value of the SERIAL sequence of content.users.id
    purchases,  \* content.merch_purchases, committed rows in commit order
    transfers,  \* content.coin_transfers, committed rows in commit order
    nops,       \* number of requests accepted in the run; also the clock NOW() reads
    pc,         \* per worker: the statement the request is about to execute
    req,        \* per worker: the request being served
    loc,        \* per worker: local variables of the storage method
    wr,         \* per worker: uncommitted coin deltas of its transaction (row id -> delta)
    err,        \* per worker: the error the request returned
    merch       \* content.merch: [rows: id -> [merch_name, price], seq: last value
                \* of its SERIAL, runs: how often the seed statement has run]

vars == <<users, nextID, purchases, transfers, nops, pc, req, loc, wr, err, merch>>

db == <<users, nextID, purchases, transfers>>

-----------------------------------------------------------------------------
(* Bounds of the model *)

\* number of requests served in one behaviour
MaxOps == 4

Workers == {"w1", "w2"}

\* request inputs
Names == {"alice", "bob"}
Passwords == {"pw"}
ToUsers == {"", "alice", "bob"}
Amounts == {-100, 0, 100, 1100}
ItemNames == {"pink-hoody", "nothing"}

-----------------------------------------------------------------------------
(* Program constants *)

\* app.go: user.Coins = 1000
StartCoins == 1000

\* init.sql: the VALUES of the seed statement; seeding the empty table makes
\* them content.merch, each row with its position as id
Merch ==
    << [merch_name |-> "t-shirt", price |-> 80],
       [merch_name |-> "cup", price |-> 20],
       [merch_name |-> "book", price |-> 50],
       [merch_name |-> "pen", price |-> 10],
       [merch_name |-> "powerbank", price |-> 200],
       [merch_name |-> "hoody", price |-> 300],
       [merch_name |-> "umbrella", price |-> 200],
       [merch_name |-> "socks", price |-> 10],
       [merch_name |-> "wallet", price |-> 50],
       [merch_name |-> "pink-hoody", price |-> 500] >>

\* error values
NoErr == "none"
ErrMissingUsernameOrPassword == "app: missing username or password"
ErrMissingUsernameOrAmount == "app: missing user or amount"
ErrNoRows == "sql: no rows in result set"
ErrMismatchedHashAndPassword == "bcrypt: mismatched hash and password"
UniqueViolation == "users_username_key"
UsersCoinsCheck == "users_coins_check"
ChkDifferentUsers == "chk_different_users"
AmountCheck == "coin_transfers_amount_check"
FkViolation == "foreign_key_violation"
ErrCtx == "context deadline exceeded"
ErrDeadlock == "deadlock_detected"

-----------------------------------------------------------------------------
(* Helpers over the tables *)

NoReq == [kind |-> "idle", userID |-> 0, username |-> "", password |-> "",
          item |-> "", toUser |-> "", amount |-> 0]

NoLoc == [start |-> 0, itemID |-> 0, price |-> 0, toID |-> 0, id |-> 0, at |-> "",
          username |-> "", coins |-> 0, inventory |-> {}, sent |-> << >>,
          received |-> << >>]

NoWr == << >>

\* SELECT id FROM content.users WHERE username = name: the set of matching ids
IdsOf(name) == {i \in DOMAIN users : users[i].username = name}

\* SELECT id, price FROM content.merch WHERE merch_name = name
MerchIdsOf(name) == {i \in DOMAIN Merch : Merch[i].merch_name = name}

\* the row lock on users row uid is held by another worker's open transaction
LockedByOther(w, uid) == \E v \in Workers \ {w} : uid \in DOMAIN wr[v]

\* the worker whose transaction holds the row lock on uid
Holder(uid) == CHOOSE v \in Workers : uid \in DOMAIN wr[v]

\* coins of row uid as transaction w sees it: committed value plus its own delta
RowCoins(w, uid) ==
    users[uid].coins + (IF uid \in DOMAIN wr[w] THEN wr[w][uid] ELSE 0)

InTx(w) == pc[w] \in {"buy_price", "buy_debit", "buy_insert", "buy_commit",
                      "send_debit", "send_getid", "send_credit", "send_insert",
                      "send_commit",
                      "info_user", "info_inv", "info_sent", "info_recv", "info_commit"}

-----------------------------------------------------------------------------
(* PostgreSQL.UpdateUserCoins: UPDATE content.users SET coins = coins + $1 *)
(* WHERE id = $2, under CHECK (coins >= 0).  RowsAffected is read but not  *)
(* tested, so an id that matches no row is a success.                      *)

\* fault variant: the coins column without its CHECK (coins >= 0)
UpdateUserCoinsErrNoCheck(w, uid, coins) == NoErr

UpdateUserCoinsErr(w, uid, coins) ==
    IF uid \notin DOMAIN users THEN NoErr
    ELSE IF RowCoins(w, uid) + coins < 0 THEN UsersCoinsCheck
    ELSE NoErr

\* fault variant: the UPDATE without WHERE id = $2 changes every row
UpdateUserCoinsWrEveryRow(w, uid, coins) ==
    [u \in DOMAIN users |->
        (IF u \in DOMAIN wr[w] THEN wr[w][u] ELSE 0) + coins]

UpdateUserCoinsWr(w, uid, coins) ==
    IF uid \notin DOMAIN users THEN wr[w]
    ELSE [u \in DOMAIN wr[w] \cup {uid} |->
            IF u = uid
            THEN (IF uid \in DOMAIN wr[w] THEN wr[w][uid] ELSE 0) + coins
            ELSE wr[w][u]]

\* fault variant: the balance test reads the row without taking its lock
UpdateUserCoinsNoLock(w, uid) == TRUE

\* the UPDATE waits while another transaction holds the row lock
UpdateUserCoinsReady(w, uid) ==
    uid \in DOMAIN users => ~LockedByOther(w, uid)

\* tx.Commit(): the transaction's row versions become the committed ones
Commit(w) ==
    [u \in DOMAIN users |->
        IF u \in DOMAIN wr[w]
        THEN [users[u] EXCEPT !.coins = users[u].coins + wr[w][u]]
        ELSE users[u]]

\* fault variant: the statements run outside a transaction, so an error
\* return leaves the updates already executed in place
RollbackKeepsWrites(w) == Commit(w)

\* deferred tx.Rollback() after an error return: the row versions are discarded
Rollback(w) == users

\* a statement of worker w returned error e: the method returns it, the
\* deferred Rollback runs; loc.at keeps the statement that failed
Abort(w, e) ==
    /\ pc' = [pc EXCEPT ![w] = "done"]
    /\ err' = [err EXCEPT ![w] = e]
    /\ wr' = [wr EXCEPT ![w] = NoWr]
    /\ users' = Rollback(w)
    /\ loc' = [loc EXCEPT ![w].at = pc[w]]
    /\ UNCHANGED <<nextID, merch, purchases, transfers, nops, req>>

\* a new request is accepted by an idle or finished worker
Accept(w, r, first, e) ==
    /\ pc[w] \in {"idle", "done"}
    /\ nops < MaxOps
    /\ nops' = nops + 1
    /\ req' = [req EXCEPT ![w] = r]
    /\ loc' = [loc EXCEPT ![w] = [NoLoc EXCEPT !.start = nops + 1]]
    /\ err' = [err EXCEPT ![w] = e]
    /\ pc' = [pc EXCEPT ![w] = first]
    /\ UNCHANGED <<users, nextID, merch, purchases, transfers, wr>>

-----------------------------------------------------------------------------
(* POST /api/auth: authHandler -> App.ProcessAuth -> CheckUser, CreateUser *)

\* security.HashPassword: the bcrypt hash that is stored, never the password
HashPassword(password) == <<"bcrypt", password>>

\* fault variant: the comparison accepts every password
CheckPasswordAlways(hashedPassword, userPassword) == TRUE

\* fault variant: the stored hash is compared with the plain password
CheckPasswordPlain(hashedPassword, userPassword) == hashedPassword = userPassword

\* security.CheckPassword: bcrypt.CompareHashAndPassword succeeds
CheckPassword(hashedPassword, userPassword) ==
    hashedPassword = HashPassword(userPassword)

\* fault variant: only the username is tested
MissingUsernameOnly(username, password) == username = ""

\* ProcessAuth's guard: req.Username == "" || req.Password == ""
MissingUsernameOrPassword(username, password) == username = "" \/ password = ""

ProcessAuth(w, username, password) ==
    LET r == [NoReq EXCEPT !.kind = "auth", !.username = username,
                           !.password = password]
    IN  IF MissingUsernameOrPassword(username, password)
        THEN Accept(w, r, "done", ErrMissingUsernameOrPassword)
        ELSE Accept(w, r, "auth_check", NoErr)

CheckUser(w) ==
    /\ pc[w] = "auth_check"
    /\ LET ids == IdsOf(req[w].username)
       IN  IF ids = {}
           THEN /\ pc' = [pc EXCEPT ![w] = "auth_create"]
                /\ UNCHANGED <<err, loc>>
           ELSE LET i == CHOOSE i \in ids : TRUE
                IN  IF CheckPassword(users[i].password, req[w].password)
                    THEN /\ pc' = [pc EXCEPT ![w] = "done"]
                         /\ loc' = [loc EXCEPT ![w].id = i]
                         /\ UNCHANGED err
                    ELSE /\ pc' = [pc EXCEPT ![w] = "done"]
                         /\ err' = [err EXCEPT ![w] = ErrMismatchedHashAndPassword]
                         /\ loc' = [loc EXCEPT ![w].id = i]
    /\ UNCHANGED <<users, nextID, merch, purchases, transfers, nops, req, wr>>

\* fault variant: username without its UNIQUE constraint
CreateUserErrNoUnique(w) == NoErr

\* createUserQuery against username ... UNIQUE
CreateUserErr(w) ==
    IF IdsOf(req[w].username) # {} THEN UniqueViolation ELSE NoErr

\* fault variant: user.Coins left at its zero value
NewUserRowNoCoins(w) ==
    [username |-> req[w].username, password |-> HashPassword(req[w].password),
     coins |-> 0]

\* the row createUserQuery inserts; ProcessAuth set user.Coins = 1000
NewUserRow(w) ==
    [username |-> req[w].username, password |-> HashPassword(req[w].password),
     coins |-> StartCoins]

CreateUser(w) ==
    /\ pc[w] = "auth_create"
    /\ nextID' = nextID + 1
    /\ pc' = [pc EXCEPT ![w] = "done"]
    /\ IF CreateUserErr(w) # NoErr
       THEN /\ err' = [err EXCEPT ![w] = CreateUserErr(w)]
            /\ UNCHANGED <<users, loc>>
       ELSE /\ users' = [i \in DOMAIN users \cup {nextID} |->
                            IF i = nextID THEN NewUserRow(w) ELSE users[i]]
            /\ loc' = [loc EXCEPT ![w].id = nextID]
            /\ UNCHANGED err
    /\ UNCHANGED <<purchases, transfers, nops, req, wr, merch>>

\* the Go package of the *PgError a storage error is, "" when it is none:
\* the driver is pgx/v5/stdlib
PgErrorPackage(e) ==
    IF e \in {UniqueViolation, UsersCoinsCheck, ChkDifferentUsers, AmountCheck,
              FkViolation, ErrDeadlock}
    THEN "github.com/jackc/pgx/v5/pgconn"
    ELSE ""

\* the id GenerateToken signs into the token authHandler returns, 0 when
\* ProcessAuth returned an error and no token
Token(w) ==
    IF req[w].kind = "auth" /\ pc[w] = "done" /\ err[w] = NoErr THEN loc[w].id ELSE 0

\* authHandler: the response written for the error ProcessAuth returned.
\* errors.As targets *PgError of github.com/jackc/pgconn.
authHandler(e) ==
    IF e = NoErr THEN [status |-> 200, errors |-> ""]
    ELSE IF PgErrorPackage(e) = "github.com/jackc/pgconn" /\ e = UniqueViolation
    THEN [status |-> 401, errors |-> "user with provided name already exists"]
    ELSE IF e = ErrMissingUsernameOrPassword
    THEN [status |-> 400, errors |-> "missing username or password"]
    ELSE IF e = ErrMismatchedHashAndPassword
    THEN [status |-> 401, errors |-> "incorrect password"]
    ELSE [status |-> 500, errors |-> e]

-----------------------------------------------------------------------------
(* GET /api/buy/{item}: buyItemHandler -> App.ProcessBuy -> BuyItem *)

\* fault variant: sql.ErrNoRows is not told apart from other errors
buyItemHandlerNoRowsUnmapped(e) ==
    IF e = NoErr THEN [status |-> 200, errors |-> ""]
    ELSE [status |-> 500, errors |-> e]

\* buyItemHandler: the response written for the error ProcessBuy returned.
\* errors.As targets *PgError of github.com/jackc/pgx/v5/pgconn; every
\* check violation is answered as insufficient funds.
buyItemHandler(e) ==
    IF e = NoErr THEN [status |-> 200, errors |-> ""]
    ELSE IF e = ErrNoRows
    THEN [status |-> 400, errors |-> "invalid item name provided"]
    ELSE IF PgErrorPackage(e) = "github.com/jackc/pgx/v5/pgconn"
            /\ e \in {UsersCoinsCheck, ChkDifferentUsers, AmountCheck}
    THEN [status |-> 400, errors |-> "insufficient funds to purchase the item"]
    ELSE [status |-> 500, errors |-> e]

ProcessBuy(w, userID, itemName) ==
    Accept(w, [NoReq EXCEPT !.kind = "buy", !.userID = userID, !.item = itemName],
           "buy_price", NoErr)

GetItemPrice(w) ==
    /\ pc[w] = "buy_price"
    /\ LET ids == MerchIdsOf(req[w].item)
       IN  IF ids = {}
           THEN Abort(w, ErrNoRows)
           ELSE LET i == CHOOSE i \in ids : TRUE
                IN  /\ loc' = [loc EXCEPT ![w].itemID = i, ![w].price = Merch[i].price]
                    /\ pc' = [pc EXCEPT ![w] = "buy_debit"]
                    /\ UNCHANGED <<users, nextID, merch, purchases, transfers, nops, req, wr, err>>

BuyDebit(w) ==
    /\ pc[w] = "buy_debit"
    /\ UpdateUserCoinsReady(w, req[w].userID)
    /\ LET e == UpdateUserCoinsErr(w, req[w].userID, -loc[w].price)
       IN  IF e # NoErr
           THEN Abort(w, e)
           ELSE /\ wr' = [wr EXCEPT ![w] = UpdateUserCoinsWr(w, req[w].userID, -loc[w].price)]
                /\ pc' = [pc EXCEPT ![w] = "buy_insert"]
                /\ UNCHANGED <<users, nextID, merch, purchases, transfers, nops, req, loc, err>>

\* INSERT INTO content.merch_purchases (user_id, merch_id, quantity)
BuyInsertErr(w) ==
    IF req[w].userID \notin DOMAIN users THEN FkViolation ELSE NoErr

BuyInsert(w) ==
    /\ pc[w] = "buy_insert"
    /\ IF BuyInsertErr(w) # NoErr
       THEN Abort(w, BuyInsertErr(w))
       ELSE /\ pc' = [pc EXCEPT ![w] = "buy_commit"]
            /\ UNCHANGED <<users, nextID, merch, purchases, transfers, nops, req, loc, wr, err>>

\* fault variant: the purchase row is written with the first catalog id
\* instead of the id GetItemPrice scanned
PurchaseRowFirstItem(w) ==
    [user_id |-> req[w].userID, merch_id |-> 1, quantity |-> 1,
     created_at |-> loc[w].start]

PurchaseRow(w) ==
    [user_id |-> req[w].userID, merch_id |-> loc[w].itemID, quantity |-> 1,
     created_at |-> loc[w].start]

\* fault variant: a repeated purchase raises the quantity of the account's
\* existing row for the item instead of adding a row
UpsertPurchase(w) ==
    IF \E n \in DOMAIN purchases :
          /\ purchases[n].user_id = PurchaseRow(w).user_id
          /\ purchases[n].merch_id = PurchaseRow(w).merch_id
    THEN [n \in DOMAIN purchases |->
             IF /\ purchases[n].user_id = PurchaseRow(w).user_id
                /\ purchases[n].merch_id = PurchaseRow(w).merch_id
             THEN [purchases[n] EXCEPT !.quantity = @ + 1]
             ELSE purchases[n]]
    ELSE Append(purchases, PurchaseRow(w))

\* buyItemQuery is a plain INSERT: the table gains the row at commit
InsertPurchase(w) == Append(purchases, PurchaseRow(w))

BuyCommit(w) ==
    /\ pc[w] = "buy_commit"
    /\ users' = Commit(w)
    /\ purchases' = InsertPurchase(w)
    /\ wr' = [wr EXCEPT ![w] = NoWr]
    /\ pc' = [pc EXCEPT ![w] = "done"]
    /\ UNCHANGED <<nextID, merch, transfers, nops, req, loc, err>>

-----------------------------------------------------------------------------
(* POST /api/sendCoin: sendCoinHandler -> App.ProcessSendCoin -> TransferCoins *)

\* fault variant: the receiver is resolved and credited before the debit
TransferStepsCreditFirst ==
    <<"send_getid", "send_credit", "send_debit", "send_insert", "send_commit">>

\* the statements of TransferCoins in the order it executes them
TransferSteps ==
    <<"send_debit", "send_getid", "send_credit", "send_insert", "send_commit">>

\* the statement TransferCoins executes after statement p
StepAfter(p) ==
    TransferSteps[(CHOOSE k \in DOMAIN TransferSteps : TransferSteps[k] = p) + 1]

ProcessSendCoin(w, userID, toUser, amount) ==
    LET r == [NoReq EXCEPT !.kind = "send", !.userID = userID, !.toUser = toUser,
                           !.amount = amount]
    IN  IF toUser = "" \/ amount = 0
        THEN Accept(w, r, "done", ErrMissingUsernameOrAmount)
        ELSE Accept(w, r, TransferSteps[1], NoErr)

SendDebit(w) ==
    /\ pc[w] = "send_debit"
    /\ UpdateUserCoinsReady(w, req[w].userID)
    /\ LET e == UpdateUserCoinsErr(w, req[w].userID, -req[w].amount)
       IN  IF e # NoErr
           THEN Abort(w, e)
           ELSE /\ wr' = [wr EXCEPT ![w] = UpdateUserCoinsWr(w, req[w].userID, -req[w].amount)]
                /\ pc' = [pc EXCEPT ![w] = StepAfter("send_debit")]
                /\ UNCHANGED <<users, nextID, merch, purchases, transfers, nops, req, loc, err>>

GetUserID(w) ==
    /\ pc[w] = "send_getid"
    /\ LET ids == IdsOf(req[w].toUser)
       IN  IF ids = {}
           THEN Abort(w, ErrNoRows)
           ELSE /\ loc' = [loc EXCEPT ![w].toID = CHOOSE i \in ids : TRUE]
                /\ pc' = [pc EXCEPT ![w] = StepAfter("send_getid")]
                /\ UNCHANGED <<users, nextID, merch, purchases, transfers, nops, req, wr, err>>

SendCredit(w) ==
    /\ pc[w] = "send_credit"
    /\ UpdateUserCoinsReady(w, loc[w].toID)
    /\ LET e == UpdateUserCoinsErr(w, loc[w].toID, req[w].amount)
       IN  IF e # NoErr
           THEN Abort(w, e)
           ELSE /\ wr' = [wr EXCEPT ![w] = UpdateUserCoinsWr(w, loc[w].toID, req[w].amount)]
                /\ pc' = [pc EXCEPT ![w] = StepAfter("send_credit")]
                /\ UNCHANGED <<users, nextID, merch, purchases, transfers, nops, req, loc, err>>

\* fault variant: coin_transfers without CHECK (amount > 0)
TransferInsertErrNoAmountCheck(w) ==
    IF req[w].userID = loc[w].toID THEN ChkDifferentUsers
    ELSE IF req[w].userID \notin DOMAIN users \/ loc[w].toID \notin DOMAIN users
         THEN FkViolation
    ELSE NoErr

\* fault variant: coin_transfers without fk_from_user and fk_to_user
TransferInsertErrNoForeignKey(w) ==
    IF req[w].userID = loc[w].toID THEN ChkDifferentUsers
    ELSE IF ~(req[w].amount > 0) THEN AmountCheck
    ELSE NoErr

\* fault variant: coin_transfers without chk_different_users
TransferInsertErrNoDifferentUsers(w) ==
    IF ~(req[w].amount > 0) THEN AmountCheck
    ELSE IF req[w].userID \notin DOMAIN users \/ loc[w].toID \notin DOMAIN users
         THEN FkViolation
    ELSE NoErr

\* INSERT INTO content.coin_transfers (from_user_id, to_user_id, amount): the
\* CHECK constraints are tested in name order, then the foreign keys
TransferInsertErr(w) ==
    IF req[w].userID = loc[w].toID THEN ChkDifferentUsers
    ELSE IF ~(req[w].amount > 0) THEN AmountCheck
    ELSE IF req[w].userID \notin DOMAIN users \/ loc[w].toID \notin DOMAIN users
         THEN FkViolation
    ELSE NoErr

SendInsert(w) ==
    /\ pc[w] = "send_insert"
    /\ IF TransferInsertErr(w) # NoErr
       THEN Abort(w, TransferInsertErr(w))
       ELSE /\ pc' = [pc EXCEPT ![w] = StepAfter("send_insert")]
            /\ UNCHANGED <<users, nextID, merch, purchases, transfers, nops, req, loc, wr, err>>

\* fault variant: sender and receiver passed to the INSERT in the wrong order
TransferRowSwapped(w) ==
    [from_user_id |-> loc[w].toID, to_user_id |-> req[w].userID,
     amount |-> req[w].amount, created_at |-> loc[w].start]

TransferRow(w) ==
    [from_user_id |-> req[w].userID, to_user_id |-> loc[w].toID,
     amount |-> req[w].amount, created_at |-> loc[w].start]

SendCommit(w) ==
    /\ pc[w] = "send_commit"
    /\ users' = Commit(w)
    /\ transfers' = Append(transfers, TransferRow(w))
    /\ wr' = [wr EXCEPT ![w] = NoWr]
    /\ pc' = [pc EXCEPT ![w] = "done"]
    /\ UNCHANGED <<nextID, merch, purchases, nops, req, loc, err>>

\* sendCoinHandler: the responses written for the error ProcessSendCoin
\* returned, in order.  The default case of the constraint switch does not
\* return, so the generic write follows it.
sendCoinHandler(e) ==
    IF e = NoErr THEN << [status |-> 200, errors |-> ""] >>
    ELSE IF e = ErrMissingUsernameOrAmount
    THEN << [status |-> 400, errors |-> "missing username or amount"] >>
    ELSE IF e = UsersCoinsCheck
    THEN << [status |-> 400, errors |-> "insufficient funds to perform the transfer"] >>
    ELSE IF e = ChkDifferentUsers
    THEN << [status |-> 400,
             errors |-> "self-transfer of money is not allowed; please choose a different user."] >>
    ELSE IF e = AmountCheck
    THEN << [status |-> 500, errors |-> "transfer cannot be performed"],
            [status |-> 500, errors |-> e] >>
    ELSE << [status |-> 500, errors |-> e] >>

-----------------------------------------------------------------------------
(* GET /api/info: infoHandler -> App.ProcessInfo -> GetInfo.  The           *)
(* transaction is opened with BeginTx(ctx, nil), READ COMMITTED: each of    *)
(* the four queries reads the rows committed when it executes.              *)

ProcessInfo(w, userID) ==
    Accept(w, [NoReq EXCEPT !.kind = "info", !.userID = userID], "info_user", NoErr)

\* getUserInfoQuery
GetUserInfo(w) ==
    /\ pc[w] = "info_user"
    /\ IF req[w].userID \notin DOMAIN users
       THEN Abort(w, ErrNoRows)
       ELSE /\ loc' = [loc EXCEPT ![w].username = users[req[w].userID].username,
                                  ![w].coins = users[req[w].userID].coins]
            /\ pc' = [pc EXCEPT ![w] = "info_inv"]
            /\ UNCHANGED <<users, nextID, merch, purchases, transfers, nops, req, wr, err>>

\* SUM(mp.quantity) over the first n purchase rows of user u for merch id m
RECURSIVE SumQuantity(_, _, _)
SumQuantity(u, m, n) ==
    IF n = 0 THEN 0
    ELSE SumQuantity(u, m, n - 1)
         + (IF purchases[n].user_id = u /\ purchases[n].merch_id = m
            THEN purchases[n].quantity ELSE 0)

\* fault variant: the rows are grouped but their quantities are not summed
MerchPurchasesNoSum(u) ==
    {[type |-> Merch[m].merch_name, quantity |-> 1] :
        m \in {purchases[n].merch_id : n \in {k \in DOMAIN purchases : purchases[k].user_id = u}}}

\* getMerchPurchasesQuery: one row per merch_name the user bought (no ORDER BY)
MerchPurchases(u) ==
    {[type |-> Merch[m].merch_name, quantity |-> SumQuantity(u, m, Len(purchases))] :
        m \in {purchases[n].merch_id : n \in {k \in DOMAIN purchases : purchases[k].user_id = u}}}

GetMerchPurchasesInfo(w) ==
    /\ pc[w] = "info_inv"
    /\ loc' = [loc EXCEPT ![w].inventory = MerchPurchases(req[w].userID)]
    /\ pc' = [pc EXCEPT ![w] = "info_sent"]
    /\ UNCHANGED <<users, nextID, merch, purchases, transfers, nops, req, wr, err>>

\* fault variant: ORDER BY ct.created_at ASC
Oldest(S) ==
    CHOOSE i \in S : \A j \in S : transfers[i].created_at <= transfers[j].created_at

\* the row DESC puts first: created_at is DEFAULT NOW(), the time the
\* inserting transaction started
Newest(S) ==
    CHOOSE i \in S : \A j \in S : transfers[i].created_at >= transfers[j].created_at

\* ORDER BY ct.created_at DESC over the transfer rows with index in S
RECURSIVE OrderByCreatedAtDesc(_)
OrderByCreatedAtDesc(S) ==
    IF S = {} THEN << >>
    ELSE <<Newest(S)>> \o OrderByCreatedAtDesc(S \ {Newest(S)})

\* fault variant: the query without WHERE ct.from_user_id = $1
SendCoinsNoFilter(u, username) ==
    LET rows == OrderByCreatedAtDesc({i \in DOMAIN transfers :
                    transfers[i].to_user_id \in DOMAIN users})
    IN  [k \in DOMAIN rows |->
            [fromUser |-> username,
             toUser |-> users[transfers[rows[k]].to_user_id].username,
             amount |-> transfers[rows[k]].amount]]

\* getSendCoinsQuery, scanned by GetCoinsTransactionInfo
SendCoins(u, username) ==
    LET rows == OrderByCreatedAtDesc({i \in DOMAIN transfers :
                    transfers[i].from_user_id = u /\ transfers[i].to_user_id \in DOMAIN users})
    IN  [k \in DOMAIN rows |->
            [fromUser |-> username,
             toUser |-> users[transfers[rows[k]].to_user_id].username,
             amount |-> transfers[rows[k]].amount]]

\* getReceivedCoinsQuery, scanned by GetCoinsTransactionInfo
ReceivedCoins(u, username) ==
    LET rows == OrderByCreatedAtDesc({i \in DOMAIN transfers :
                    transfers[i].to_user_id = u /\ transfers[i].from_user_id \in DOMAIN users})
    IN  [k \in DOMAIN rows |->
            [fromUser |-> users[transfers[rows[k]].from_user_id].username,
             toUser |-> username,
             amount |-> transfers[rows[k]].amount]]

GetSentInfo(w) ==
    /\ pc[w] = "info_sent"
    /\ loc' = [loc EXCEPT ![w].sent = SendCoins(req[w].userID, loc[w].username)]
    /\ pc' = [pc EXCEPT ![w] = "info_recv"]
    /\ UNCHANGED <<users, nextID, merch, purchases, transfers, nops, req, wr, err>>

GetReceivedInfo(w) ==
    /\ pc[w] = "info_recv"
    /\ loc' = [loc EXCEPT ![w].received = ReceivedCoins(req[w].userID, loc[w].username)]
    /\ pc' = [pc EXCEPT ![w] = "info_commit"]
    /\ UNCHANGED <<users, nextID, merch, purchases, transfers, nops, req, wr, err>>

InfoCommit(w) ==
    /\ pc[w] = "info_commit"
    /\ pc' = [pc EXCEPT ![w] = "done"]
    /\ UNCHANGED <<users, nextID, merch, purchases, transfers, nops, req, loc, wr, err>>

\* what GetInfo returned to ProcessInfo when worker w's summary is done: the
\* pointer to infoResponse, as a one-element sequence.  Its fields are
\* assigned after the four queries, so it is the zero value when a query
\* failed and filled when only the commit failed.
GetInfoResponse(w) ==
    IF err[w] = NoErr \/ loc[w].at = "info_commit"
    THEN << [coins |-> loc[w].coins, inventory |-> loc[w].inventory,
             sent |-> loc[w].sent, received |-> loc[w].received] >>
    ELSE << [coins |-> 0, inventory |-> {}, sent |-> << >>, received |-> << >>] >>

\* fault variant: GetInfo's response is handed on with the error
ProcessInfoResponseKept(w) == GetInfoResponse(w)

\* what ProcessInfo returned beside the error: nil (the empty sequence) when
\* GetInfo returned an error
ProcessInfoResponse(w) ==
    IF err[w] # NoErr THEN << >> ELSE GetInfoResponse(w)

\* infoHandler: the response written for a finished summary
infoHandler(w) ==
    IF err[w] # NoErr
    THEN [status |-> 500, errors |-> err[w], info |-> << >>]
    ELSE [status |-> 200, errors |-> "", info |-> ProcessInfoResponse(w)]

-----------------------------------------------------------------------------
(* Failures from outside the workflow *)

\* the request context is cancelled or times out, or the connection fails,
\* while the transaction is open: the pending statement (Commit included)
\* returns the error
CtxFail(w) ==
    /\ InTx(w)
    /\ Abort(w, ErrCtx)

\* the row the worker's next UPDATE needs, when it is waiting for it
WaitsFor(w) ==
    IF pc[w] \in {"buy_debit", "send_debit"} /\ req[w].userID \in DOMAIN users
          /\ LockedByOther(w, req[w].userID)
    THEN {Holder(req[w].userID)}
    ELSE IF pc[w] = "send_credit" /\ loc[w].toID \in DOMAIN users
          /\ LockedByOther(w, loc[w].toID)
    THEN {Holder(loc[w].toID)}
    ELSE {}

\* v is reached from w along at most n wait-for edges
RECURSIVE Reaches(_, _, _)
Reaches(w, v, n) ==
    IF n = 0 THEN FALSE
    ELSE \E x \in WaitsFor(w) : x = v \/ Reaches(x, v, n - 1)

Deadlocked(w) == Reaches(w, w, Cardinality(Workers))

\* PostgreSQL's deadlock detector aborts one transaction of a wait cycle
DeadlockAbort(w) ==
    /\ Deadlocked(w)
    /\ Abort(w, ErrDeadlock)

-----------------------------------------------------------------------------
Init ==
    /\ users = << >>
    /\ nextID = 1
    /\ purchases = << >>
    /\ transfers = << >>
    /\ nops = 0
    /\ pc = [w \in Workers |-> "idle"]
    /\ req = [w \in Workers |-> NoReq]
    /\ loc = [w \in Workers |-> NoLoc]
    /\ wr = [w \in Workers |-> NoWr]
    /\ err = [w \in Workers |-> NoErr]
    /\ merch = [rows |-> Merch, seq |-> Len(Merch), runs |-> 1]

Next ==
    \E w \in Workers :
        \/ \E n \in Names, p \in Passwords : ProcessAuth(w, n, p)
        \/ CheckUser(w)
        \/ CreateUser(w)
        \/ \E u \in DOMAIN users, i \in ItemNames : ProcessBuy(w, u, i)
        \/ GetItemPrice(w)
        \/ BuyDebit(w)
        \/ BuyInsert(w)
        \/ BuyCommit(w)
        \/ \E u \in DOMAIN users, t \in ToUsers, a \in Amounts : ProcessSendCoin(w, u, t, a)
        \/ SendDebit(w)
        \/ GetUserID(w)
        \/ SendCredit(w)
        \/ SendInsert(w)
        \/ SendCommit(w)
        \/ CtxFail(w)
        \/ DeadlockAbort(w)

Spec == Init /\ [][Next]_vars

-----------------------------------------------------------------------------
(* The race of two debits on one account.  The state is one the program    *)
(* reaches: alice (id 1) and bob (id 2) were created, alice sent bob       *)
(* 1000 - B coins, and two requests that debit alice have been accepted.   *)

RaceBalances == {100, 500, 900}
RaceAmounts == {80, 100, 450}
RaceItems == {"t-shirt", "pink-hoody"}

RaceRequests ==
    {[NoReq EXCEPT !.kind = "buy", !.userID = 1, !.item = i] : i \in RaceItems}
    \cup {[NoReq EXCEPT !.kind = "send", !.userID = 1, !.toUser = "bob", !.amount = a] :
            a \in RaceAmounts}

FirstPc(r) == IF r.kind = "buy" THEN "buy_price" ELSE TransferSteps[1]

RaceInit ==
    \E B \in RaceBalances, r1 \in RaceRequests, r2 \in RaceRequests :
        /\ users = (1 :> [username |-> "alice", password |-> HashPassword("pw"), coins |-> B]
                    @@ 2 :> [username |-> "bob", password |-> HashPassword("pw"),
                             coins |-> StartCoins + (StartCoins - B)])
        /\ nextID = 3
        /\ purchases = << >>
        /\ transfers = << [from_user_id |-> 1, to_user_id |-> 2,
                           amount |-> StartCoins - B, created_at |-> 3] >>
        /\ nops = 5
        /\ req = ("w1" :> r1 @@ "w2" :> r2)
        /\ pc = ("w1" :> FirstPc(r1) @@ "w2" :> FirstPc(r2))
        /\ loc = ("w1" :> [NoLoc EXCEPT !.start = 4] @@ "w2" :> [NoLoc EXCEPT !.start = 5])
        /\ wr = [w \in Workers |-> NoWr]
        /\ err = [w \in Workers |-> NoErr]
        /\ merch = [rows |-> Merch, seq |-> Len(Merch), runs |-> 1]

RaceNext ==
    \E w \in Workers :
        \/ GetItemPrice(w)
        \/ BuyDebit(w)
        \/ BuyInsert(w)
        \/ BuyCommit(w)
        \/ SendDebit(w)
        \/ GetUserID(w)
        \/ SendCredit(w)
        \/ SendInsert(w)
        \/ SendCommit(w)

SpecRace == RaceInit /\ [][RaceNext]_vars

-----------------------------------------------------------------------------
(* Ledger sums *)

RECURSIVE SumReceived(_, _)
SumReceived(u, n) ==
    IF n = 0 THEN 0
    ELSE SumReceived(u, n - 1)
         + (IF transfers[n].to_user_id = u THEN transfers[n].amount ELSE 0)

RECURSIVE SumSent(_, _)
SumSent(u, n) ==
    IF n = 0 THEN 0
    ELSE SumSent(u, n - 1)
         + (IF transfers[n].from_user_id = u THEN transfers[n].amount ELSE 0)

RECURSIVE SumBought(_, _)
SumBought(u, n) ==
    IF n = 0 THEN 0
    ELSE SumBought(u, n - 1)
         + (IF purchases[n].user_id = u
            THEN Merch[purchases[n].merch_id].price * purchases[n].quantity
            ELSE 0)

\* the coins a request needs to take from its caller's account
Needs(w) ==
    IF req[w].kind = "buy"
    THEN Merch[CHOOSE i \in MerchIdsOf(req[w].item) : TRUE].price
    ELSE req[w].amount

\* worker w took a step of its request
Stepped(w) == pc'[w] # pc[w] \/ wr'[w] # wr[w]

\* worker w finished its request with this step
Finishes(w) == pc[w] \notin {"idle", "done"} /\ pc'[w] = "done"

\* the error came from outside the workflow
Outside(e) == e \in {ErrCtx, ErrDeadlock}

Sender(w) == req[w].userID

-----------------------------------------------------------------------------
(* Claims *)

\* C1: in every committed state every account's balance is >= 0
C1_BalanceNonNegative ==
    \A u \in DOMAIN users : users[u].coins >= 0

\* C1 witness: an account was debited down to exactly 0 by committed purchases
C1_Witness ==
    \E u \in DOMAIN users : users[u].coins = 0 /\ SumBought(u, Len(purchases)) = StartCoins

\* C2: two concurrent debits of one account with balance B, each affordable
\* alone and not together, end with exactly one success and one
\* users_coins_check (insufficient funds) failure
C2_RaceCase ==
    /\ Len(transfers) >= 1
    /\ LET B == StartCoins - transfers[1].amount
       IN  /\ Needs("w1") <= B
           /\ Needs("w2") <= B
           /\ Needs("w1") + Needs("w2") > B

C2_ConcurrentDebitSafety ==
    (C2_RaceCase /\ \A w \in Workers : pc[w] = "done")
        => \E w \in Workers :
              /\ err[w] = NoErr
              /\ \A v \in Workers \ {w} : err[v] = UsersCoinsCheck

\* C2 witness: the race was run to the end and one of the two was refused
C2_Witness ==
    /\ C2_RaceCase
    /\ \A w \in Workers : pc[w] = "done"
    /\ \E w \in Workers : err[w] = UsersCoinsCheck /\ loc[w].at \in {"buy_debit", "send_debit"}
    /\ \E w \in Workers : err[w] = NoErr
    /\ transfers[1].amount = 900
    /\ users[1].coins = 20

\* C3: a successful transfer of A from X to Y takes exactly A from X, gives
\* exactly A to Y and appends exactly one record (X, Y, A)
C3_TransferConservation ==
    [][\A w \in Workers :
          (req[w].kind = "send" /\ Finishes(w) /\ err'[w] = NoErr)
          => LET X == Sender(w)
                 Y == loc[w].toID
                 A == req[w].amount
             IN  /\ X # Y
                 /\ users'[X].coins = users[X].coins - A
                 /\ users'[Y].coins = users[Y].coins + A
                 /\ Len(transfers') = Len(transfers) + 1
                 /\ SubSeq(transfers', 1, Len(transfers)) = transfers
                 /\ transfers'[Len(transfers')].from_user_id = X
                 /\ transfers'[Len(transfers')].to_user_id = Y
                 /\ transfers'[Len(transfers')].amount = A]_vars

\* C3 witness: 1000/1000 with A = 100 has become 900/1100 with one record
C3_Witness ==
    \E w \in Workers :
        /\ req[w].kind = "send" /\ pc[w] = "done" /\ err[w] = NoErr
        /\ req[w].amount = 100
        /\ users[Sender(w)].coins = 900
        /\ users[loc[w].toID].coins = 1100
        /\ Len(transfers) = 1

\* C4: no step of a purchase that does not end it successfully changes the
\* committed balances or ledgers, and a failed purchase leaves nothing pending
C4_PurchaseAtomic ==
    [][\A w \in Workers :
          (req[w].kind = "buy" /\ Stepped(w) /\ ~(pc'[w] = "done" /\ err'[w] = NoErr))
          => /\ users' = users
             /\ purchases' = purchases
             /\ transfers' = transfers
             /\ (pc'[w] = "done" => wr'[w] = NoWr)]_vars

\* C4 witness: a purchase failed after its debit had been applied
C4_Witness ==
    \E w \in Workers :
        /\ req[w].kind = "buy" /\ pc[w] = "done" /\ err[w] # NoErr
        /\ loc[w].at \in {"buy_insert", "buy_commit"}
        /\ users[Sender(w)].coins = StartCoins
        /\ purchases = << >>

\* C5: no step of a transfer that does not end it successfully changes the
\* committed balances or ledgers, and a failed transfer leaves nothing pending
C5_TransferAtomic ==
    [][\A w \in Workers :
          (req[w].kind = "send" /\ Stepped(w) /\ ~(pc'[w] = "done" /\ err'[w] = NoErr))
          => /\ users' = users
             /\ transfers' = transfers
             /\ purchases' = purchases
             /\ (pc'[w] = "done" => wr'[w] = NoWr)]_vars

\* C5 witness: a transfer failed after the sender's debit had been applied
C5_Witness ==
    \E w \in Workers :
        /\ req[w].kind = "send" /\ pc[w] = "done" /\ err[w] # NoErr
        /\ req[w].amount = 100
        /\ loc[w].at \in {"send_getid", "send_credit", "send_insert", "send_commit"}
        /\ \A u \in DOMAIN users : users[u].coins = StartCoins
        /\ transfers = << >>

\* C6: every committed balance is 1000 + received - sent - price of purchases
C6_LedgerMatchesBalance ==
    \A u \in DOMAIN users :
        users[u].coins = StartCoins + SumReceived(u, Len(transfers))
                         - SumSent(u, Len(transfers)) - SumBought(u, Len(purchases))

\* C6 witness: an account that both bought and received
C6_Witness ==
    \E u \in DOMAIN users :
        /\ SumBought(u, Len(purchases)) > 0
        /\ SumReceived(u, Len(transfers)) > 0

\* C7: a transfer to the caller's own name that the request validation let
\* through and that no outside failure interrupted ends with the
\* chk_different_users (self-transfer) error, balance unchanged
C7_SelfTransferRejected ==
    \A w \in Workers :
        (/\ req[w].kind = "send" /\ pc[w] = "done"
         /\ req[w].amount # 0
         /\ ~Outside(err[w])
         /\ IdsOf(req[w].toUser) = {Sender(w)})
        => err[w] = ChkDifferentUsers

\* C8: a transfer request with amount <= 0 or an empty recipient is refused
\* with ErrMissingUsernameOrAmount and never enters the storage layer
C8_InvalidRequestBeforeStorage ==
    \A w \in Workers :
        (req[w].kind = "send" /\ (~(req[w].amount > 0) \/ req[w].toUser = ""))
        => (pc[w] = "done" /\ err[w] = ErrMissingUsernameOrAmount /\ loc[w].at = "")

\* C9: a validated transfer to a name that matches no account, not
\* interrupted from outside, ends with sql.ErrNoRows (unknown recipient)
C9_UnknownRecipientRejected ==
    \A w \in Workers :
        (/\ req[w].kind = "send" /\ pc[w] = "done"
         /\ req[w].amount # 0 /\ req[w].toUser # ""
         /\ ~Outside(err[w])
         /\ IdsOf(req[w].toUser) = {})
        => err[w] = ErrNoRows

\* C10: when the sender's debit of a transfer to an existing, different
\* recipient executes against a balance smaller than the amount, the transfer
\* ends there with users_coins_check, the handler answers insufficient funds,
\* and balances and ledgers are unchanged
C10_InsufficientFundsRejected ==
    [][\A w \in Workers :
          (/\ pc[w] = "send_debit" /\ Stepped(w)
           /\ err'[w] # ErrCtx
           /\ req[w].amount > users[Sender(w)].coins
           /\ IdsOf(req[w].toUser) # {} /\ IdsOf(req[w].toUser) # {Sender(w)})
          => /\ pc'[w] = "done"
             /\ err'[w] = UsersCoinsCheck
             /\ sendCoinHandler(err'[w])
                  = << [status |-> 400,
                        errors |-> "insufficient funds to perform the transfer"] >>
             /\ users' = users
             /\ transfers' = transfers
             /\ wr'[w] = NoWr]_vars

\* C10 witness: 1100 from a balance of 1000 to an existing other account was refused
C10_Witness ==
    \E w \in Workers :
        /\ req[w].kind = "send" /\ pc[w] = "done" /\ err[w] = UsersCoinsCheck
        /\ loc[w].at = "send_debit"
        /\ req[w].amount = 1100
        /\ IdsOf(req[w].toUser) # {} /\ IdsOf(req[w].toUser) # {Sender(w)}
        /\ users[Sender(w)].coins = StartCoins

-----------------------------------------------------------------------------
(* Purchases of one account: alice authenticates and buys, with the items  *)
(* of the acceptance scenarios.                                            *)

BuyNames == {"alice"}
BuyItemNames == {"t-shirt", "pink-hoody", "nothing"}

BuyNext ==
    \E w \in Workers :
        \/ \E n \in BuyNames, p \in Passwords : ProcessAuth(w, n, p)
        \/ CheckUser(w)
        \/ CreateUser(w)
        \/ \E u \in DOMAIN users, i \in BuyItemNames : ProcessBuy(w, u, i)
        \/ GetItemPrice(w)
        \/ BuyDebit(w)
        \/ BuyInsert(w)
        \/ BuyCommit(w)
        \/ CtxFail(w)

SpecBuy == Init /\ [][BuyNext]_vars

\* the names of the seeded catalog
CatalogNames == {Merch[i].merch_name : i \in DOMAIN Merch}

\* C11: a purchase of a name that is not in the catalog ends at the price
\* lookup with sql.ErrNoRows, the handler answers 400 'invalid item name
\* provided', and balances and purchase records are unchanged
C11_InvalidItemRejected ==
    [][\A w \in Workers :
          (/\ pc[w] = "buy_price" /\ Stepped(w)
           /\ err'[w] # ErrCtx
           /\ req[w].item \notin CatalogNames)
          => /\ pc'[w] = "done"
             /\ err'[w] = ErrNoRows
             /\ buyItemHandler(err'[w])
                  = [status |-> 400, errors |-> "invalid item name provided"]
             /\ users' = users
             /\ purchases' = purchases
             /\ wr'[w] = NoWr]_vars

\* C11 witness: a purchase of "nothing" was refused and nothing was stored
C11_Witness ==
    \E w \in Workers :
        /\ req[w].kind = "buy" /\ pc[w] = "done" /\ err[w] = ErrNoRows
        /\ req[w].item = "nothing"
        /\ loc[w].at = "buy_price"
        /\ users[Sender(w)].coins = StartCoins
        /\ purchases = << >>

\* C12: when the debit of a purchase executes against a balance smaller than
\* the price, the purchase ends there with users_coins_check, the handler
\* answers 400 insufficient funds, and balances and records are unchanged
C12_PurchaseInsufficientFunds ==
    [][\A w \in Workers :
          (/\ pc[w] = "buy_debit" /\ Stepped(w)
           /\ err'[w] # ErrCtx
           /\ loc[w].price > users[Sender(w)].coins)
          => /\ pc'[w] = "done"
             /\ err'[w] = UsersCoinsCheck
             /\ buyItemHandler(err'[w])
                  = [status |-> 400, errors |-> "insufficient funds to purchase the item"]
             /\ users' = users
             /\ purchases' = purchases
             /\ wr'[w] = NoWr]_vars

\* C12 witness: a purchase was refused for a balance below the price, and
\* the balance kept its value
C12_Witness ==
    \E w \in Workers :
        /\ req[w].kind = "buy" /\ pc[w] = "done" /\ err[w] = UsersCoinsCheck
        /\ loc[w].at = "buy_debit"
        /\ users[Sender(w)].coins < loc[w].price
        /\ users[Sender(w)].coins
             = StartCoins + SumReceived(Sender(w), Len(transfers))
               - SumSent(Sender(w), Len(transfers)) - SumBought(Sender(w), Len(purchases))

\* C13: a successful purchase of item I by X takes exactly price(I) from X
\* and appends exactly one record (X, I, quantity 1)
C13_PurchaseEffect ==
    [][\A w \in Workers :
          (req[w].kind = "buy" /\ Finishes(w) /\ err'[w] = NoErr)
          => LET X == Sender(w)
                 I == CHOOSE i \in DOMAIN Merch : Merch[i].merch_name = req[w].item
             IN  /\ req[w].item \in CatalogNames
                 /\ users'[X].coins = users[X].coins - Merch[I].price
                 /\ \A u \in DOMAIN users \ {X} : users'[u] = users[u]
                 /\ Len(purchases') = Len(purchases) + 1
                 /\ SubSeq(purchases', 1, Len(purchases)) = purchases
                 /\ purchases'[Len(purchases')].user_id = X
                 /\ purchases'[Len(purchases')].merch_id = I
                 /\ purchases'[Len(purchases')].quantity = 1]_vars

\* C13 witness: a new account with 1000 bought a t-shirt at 80: balance 920
\* and the single record (alice, t-shirt, 1)
C13_Witness ==
    \E w \in Workers :
        /\ req[w].kind = "buy" /\ pc[w] = "done" /\ err[w] = NoErr
        /\ req[w].item = "t-shirt"
        /\ users[Sender(w)].username = "alice"
        /\ users[Sender(w)].coins = 920
        /\ Len(purchases) = 1
        /\ purchases[1].user_id = Sender(w)
        /\ Merch[purchases[1].merch_id].merch_name = "t-shirt"
        /\ purchases[1].quantity = 1

-----------------------------------------------------------------------------
(* Summaries read while purchases and transfers commit.  The state is one  *)
(* the program reaches: alice (id 1) and bob (id 2) have authenticated.    *)
(* The run counts its requests, and its time, from there.  Every transfer *)
(* is to alice, so no two transactions wait for each other's rows.         *)

InfoItemNames == {"pink-hoody"}
InfoToUsers == {"alice"}
InfoAmounts == {100, 200}

InfoInit ==
    /\ users = (1 :> [username |-> "alice", password |-> HashPassword("pw"),
                      coins |-> StartCoins]
                @@ 2 :> [username |-> "bob", password |-> HashPassword("pw"),
                         coins |-> StartCoins])
    /\ nextID = 3
    /\ purchases = << >>
    /\ transfers = << >>
    /\ nops = 1
    /\ pc = [w \in Workers |-> "idle"]
    /\ req = [w \in Workers |-> NoReq]
    /\ loc = [w \in Workers |-> NoLoc]
    /\ wr = [w \in Workers |-> NoWr]
    /\ err = [w \in Workers |-> NoErr]
    /\ merch = [rows |-> Merch, seq |-> Len(Merch), runs |-> 1]

InfoNext ==
    \E w \in Workers :
        \/ \E u \in DOMAIN users : ProcessInfo(w, u)
        \/ GetUserInfo(w)
        \/ GetMerchPurchasesInfo(w)
        \/ GetSentInfo(w)
        \/ GetReceivedInfo(w)
        \/ InfoCommit(w)
        \/ \E u \in DOMAIN users, i \in InfoItemNames : ProcessBuy(w, u, i)
        \/ GetItemPrice(w)
        \/ BuyDebit(w)
        \/ BuyInsert(w)
        \/ BuyCommit(w)
        \/ \E u \in DOMAIN users, t \in InfoToUsers, a \in InfoAmounts :
              ProcessSendCoin(w, u, t, a)
        \/ SendDebit(w)
        \/ GetUserID(w)
        \/ SendCredit(w)
        \/ SendInsert(w)
        \/ SendCommit(w)
        \/ CtxFail(w)

SpecInfo == InfoInit /\ [][InfoNext]_vars

\* the sum of the amounts of a list of transaction details
RECURSIVE SumDetails(_, _)
SumDetails(d, n) == IF n = 0 THEN 0 ELSE SumDetails(d, n - 1) + d[n].amount

\* the catalog value of an inventory
RECURSIVE InventoryValue(_)
InventoryValue(inv) ==
    IF inv = {} THEN 0
    ELSE LET x == CHOOSE x \in inv : TRUE
         IN  x.quantity * Merch[CHOOSE i \in MerchIdsOf(x.type) : TRUE].price
             + InventoryValue(inv \ {x})

\* C14: the balance a summary returns is the balance of the committed state
\* its histories come from: in every committed state the balance is
\* 1000 + received - sent - purchases, so the same holds between the parts
\* of one summary
C14_SummaryIsSnapshot ==
    \A w \in Workers :
        (req[w].kind = "info" /\ pc[w] = "done" /\ err[w] = NoErr)
        => loc[w].coins = StartCoins + SumDetails(loc[w].received, Len(loc[w].received))
                          - SumDetails(loc[w].sent, Len(loc[w].sent))
                          - InventoryValue(loc[w].inventory)

-----------------------------------------------------------------------------
(* Authentication alone: first authentications that race for one name,     *)
(* repeated authentications, wrong and missing credentials.                *)

AuthNames == {"", "alice", "bob"}
AuthPasswords == {"", "pw", "bad"}

AuthNext ==
    \E w \in Workers :
        \/ \E n \in AuthNames, p \in AuthPasswords : ProcessAuth(w, n, p)
        \/ CheckUser(w)
        \/ CreateUser(w)

SpecAuth == Init /\ [][AuthNext]_vars

\* C15: the CreateUser step of an authentication whose name has no account
\* adds exactly one account, with that name and 1000 coins, leaves the other
\* accounts alone, and the token is for the new account's id
C15_FirstAuthCreates ==
    [][\A w \in Workers :
          (pc[w] = "auth_create" /\ pc'[w] = "done" /\ IdsOf(req[w].username) = {})
          => /\ err'[w] = NoErr
             /\ \E i \in DOMAIN users' \ DOMAIN users :
                   /\ DOMAIN users' = DOMAIN users \cup {i}
                   /\ users'[i].username = req[w].username
                   /\ users'[i].coins = 1000
                   /\ IdsOf(req[w].username)' = {i}
                   /\ Token(w)' = i
             /\ \A j \in DOMAIN users : users'[j] = users[j]]_vars

C15_Witness ==
    \E w \in Workers :
        /\ nops = 1
        /\ req[w].kind = "auth" /\ pc[w] = "done" /\ err[w] = NoErr
        /\ DOMAIN users = {1}
        /\ users[1].username = req[w].username
        /\ users[1].coins = 1000
        /\ Token(w) = 1

\* C16: no two accounts have the same username
C16_OneAccountPerName ==
    \A i \in DOMAIN users, j \in DOMAIN users :
        users[i].username = users[j].username => i = j

C16_Witness ==
    \E w \in Workers :
        /\ req[w].kind = "auth" /\ pc[w] = "done" /\ err[w] = UniqueViolation
        /\ Cardinality(IdsOf(req[w].username)) = 1
        /\ nextID = 3

\* C17 as stated: two finished authentications with the same username and
\* password both succeeded, with a token for the same account
C17_DuplicateCreateRetried ==
    \A w \in Workers, v \in Workers :
        (/\ w # v
         /\ req[w].kind = "auth" /\ pc[w] = "done"
         /\ req[v].kind = "auth" /\ pc[v] = "done"
         /\ req[w].username = req[v].username /\ req[w].username # ""
         /\ req[w].password = req[v].password /\ req[w].password # "")
        => (err[w] = NoErr /\ err[v] = NoErr /\ Token(w) = Token(v))

\* C17 amended: a CreateUser step that finds the name taken ends the
\* authentication with the unique violation: the lookup is not retried, no
\* token is issued, no account is created or changed, and the name keeps its
\* single account
C17_DuplicateCreateFails ==
    [][\A w \in Workers :
          (pc[w] = "auth_create" /\ pc'[w] # pc[w] /\ IdsOf(req[w].username) # {})
          => /\ pc'[w] = "done"
             /\ err'[w] = UniqueViolation
             /\ Token(w)' = 0
             /\ users' = users
             /\ Cardinality(IdsOf(req[w].username)') = 1]_vars

C17_Witness ==
    \E w \in Workers, v \in Workers :
        /\ w # v
        /\ req[w].kind = "auth" /\ pc[w] = "done" /\ err[w] = UniqueViolation
        /\ req[v].kind = "auth" /\ pc[v] = "done" /\ err[v] = NoErr
        /\ req[v].username = req[w].username
        /\ IdsOf(req[w].username) = {Token(v)}
        /\ Token(w) = 0

\* C18: an authentication that ended with the unique violation is answered
\* 401 'user with provided name already exists', without a token
C18_DuplicateNameUnauthorized ==
    \A w \in Workers :
        (req[w].kind = "auth" /\ pc[w] = "done" /\ err[w] = UniqueViolation)
        => /\ authHandler(err[w]) =
                [status |-> 401, errors |-> "user with provided name already exists"]
           /\ Token(w) = 0

\* C19: the CheckUser step of an authentication with the name and password
\* of an existing account ends it with a token for that account, without a
\* CreateUser step, and changes no account, balance or ledger
C19_ExistingAccountAuth ==
    [][\A w \in Workers :
          (/\ pc[w] = "auth_check" /\ pc'[w] # pc[w]
           /\ \E i \in IdsOf(req[w].username) :
                 users[i].password = HashPassword(req[w].password))
          => /\ pc'[w] = "done"
             /\ err'[w] = NoErr
             /\ Token(w)' \in IdsOf(req[w].username)
             /\ <<users, nextID, purchases, transfers>>' =
                    <<users, nextID, purchases, transfers>>]_vars

C19_Witness ==
    \E w \in Workers :
        /\ req[w].kind = "auth" /\ pc[w] = "done" /\ err[w] = NoErr
        /\ Token(w) \in IdsOf(req[w].username)
        /\ \E k \in DOMAIN purchases :
              /\ purchases[k].user_id = Token(w)
              /\ purchases[k].created_at < loc[w].start
        /\ users[Token(w)].coins < 1000

\* C20: the CheckUser step of an authentication with the name of an existing
\* account and another password ends it with 401 'incorrect password' and no
\* token, and changes no account
C20_IncorrectPassword ==
    [][\A w \in Workers :
          (/\ pc[w] = "auth_check" /\ pc'[w] # pc[w]
           /\ \E i \in IdsOf(req[w].username) :
                 users[i].password # HashPassword(req[w].password))
          => /\ pc'[w] = "done"
             /\ authHandler(err'[w]) = [status |-> 401, errors |-> "incorrect password"]
             /\ Token(w)' = 0
             /\ <<users, nextID, purchases, transfers>>' =
                    <<users, nextID, purchases, transfers>>]_vars

C20_Witness ==
    \E w \in Workers :
        /\ req[w].kind = "auth" /\ pc[w] = "done"
        /\ err[w] = ErrMismatchedHashAndPassword
        /\ \E i \in IdsOf(req[w].username) :
              /\ users[i].password # HashPassword(req[w].password)
              /\ users[i].coins = 1000
        /\ Token(w) = 0

\* C21: an authentication accepted with an empty username or an empty
\* password ends at once with 400 'missing username or password' and no
\* token; it never stands at the CheckUser or CreateUser step, and accepting
\* it changes no account
C21_MissingCredentialsRejected ==
    [][\A w \in Workers :
          /\ (/\ nops' = nops + 1 /\ loc'[w].start = nops'
              /\ req'[w].kind = "auth"
              /\ (req'[w].username = "" \/ req'[w].password = ""))
             => /\ pc'[w] = "done"
                /\ authHandler(err'[w]) =
                       [status |-> 400, errors |-> "missing username or password"]
                /\ Token(w)' = 0
                /\ <<users, nextID>>' = <<users, nextID>>
          /\ pc'[w] \in {"auth_check", "auth_create"}
             => (req'[w].username # "" /\ req'[w].password # "")]_vars

C21_Witness ==
    \E w \in Workers :
        /\ req[w].kind = "auth" /\ pc[w] = "done"
        /\ req[w].username = "alice" /\ req[w].password = ""
        /\ err[w] = ErrMissingUsernameOrPassword
        /\ IdsOf("alice") = {}

\* the sum of the quantities of the purchase records with index in S
RECURSIVE QuantityOf(_)
QuantityOf(S) ==
    IF S = {} THEN 0
    ELSE LET n == CHOOSE n \in S : TRUE
         IN  purchases[n].quantity + QuantityOf(S \ {n})

\* the committed purchase records of account u for the item called name
PurchasesOf(u, name) ==
    {n \in DOMAIN purchases :
        purchases[n].user_id = u /\ Merch[purchases[n].merch_id].merch_name = name}

\* C22: the inventory query of a summary for account X returns, for each item
\* name, one entry with the sum of the quantities of X's committed purchase
\* records of that item, and no entry for a name X has no record of
C22_InventoryAggregates ==
    [][\A w \in Workers :
          (pc[w] = "info_inv" /\ pc'[w] = "info_sent")
          => LET inv == loc'[w].inventory
             IN  \A name \in CatalogNames \cup {x.type : x \in inv} :
                    IF PurchasesOf(req[w].userID, name) = {}
                    THEN \A x \in inv : x.type # name
                    ELSE /\ Cardinality({x \in inv : x.type = name}) = 1
                         /\ \A x \in inv :
                               x.type = name
                               => x.quantity = QuantityOf(PurchasesOf(req[w].userID, name))]_vars

C22_Witness ==
    \E w \in Workers :
        /\ req[w].kind = "info" /\ pc[w] = "done" /\ err[w] = NoErr
        /\ loc[w].inventory = {[type |-> "pink-hoody", quantity |-> 2]}
        /\ Cardinality(PurchasesOf(req[w].userID, "pink-hoody")) = 2

\* the committed transfer records from account x to account y of amount a
TransfersOf(x, y, a) ==
    {i \in DOMAIN transfers :
        /\ transfers[i].from_user_id = x
        /\ transfers[i].to_user_id = y
        /\ transfers[i].amount = a}

\* the entries of a summary list that show a transfer of a from x to y
EntriesOf(list, x, y, a) ==
    {k \in DOMAIN list :
        list[k] = [fromUser |-> users[x].username, toUser |-> users[y].username,
                   amount |-> a]}

RecordedAmounts == {transfers[i].amount : i \in DOMAIN transfers}

\* C23: the sent query of a summary for account X returns one entry (X's
\* name, Y's name, A) for each committed transfer record (X, Y, A) and
\* nothing else; the received query one entry (Y's name, X's name, A) for
\* each committed record (Y, X, A) and nothing else
C23_TransfersListed ==
    [][\A w \in Workers :
          /\ (pc[w] = "info_sent" /\ pc'[w] = "info_recv")
             => LET x == req[w].userID
                    list == loc'[w].sent
                IN  /\ \A y \in DOMAIN users, a \in RecordedAmounts :
                          Cardinality(EntriesOf(list, x, y, a)) =
                              Cardinality(TransfersOf(x, y, a))
                    /\ Len(list) = Cardinality({i \in DOMAIN transfers :
                                                   transfers[i].from_user_id = x})
          /\ (pc[w] = "info_recv" /\ pc'[w] = "info_commit")
             => LET x == req[w].userID
                    list == loc'[w].received
                IN  /\ \A y \in DOMAIN users, a \in RecordedAmounts :
                          Cardinality(EntriesOf(list, y, x, a)) =
                              Cardinality(TransfersOf(y, x, a))
                    /\ Len(list) = Cardinality({i \in DOMAIN transfers :
                                                   transfers[i].to_user_id = x})]_vars

C23_Witness ==
    \E w \in Workers, v \in Workers :
        /\ transfers = << [from_user_id |-> 2, to_user_id |-> 1, amount |-> 100,
                           created_at |-> 2] >>
        /\ req[w].kind = "info" /\ req[w].userID = 2 /\ pc[w] = "done" /\ err[w] = NoErr
        /\ loc[w].sent = << [fromUser |-> "bob", toUser |-> "alice", amount |-> 100] >>
        /\ loc[w].received = << >>
        /\ req[v].kind = "info" /\ req[v].userID = 1 /\ pc[v] = "done" /\ err[v] = NoErr
        /\ loc[v].received = << [fromUser |-> "bob", toUser |-> "alice", amount |-> 100] >>
        /\ loc[v].sent = << >>

\* the entry a summary list shows for the committed transfer record i
View(i) ==
    [fromUser |-> users[transfers[i].from_user_id].username,
     toUser |-> users[transfers[i].to_user_id].username,
     amount |-> transfers[i].amount]

\* the committed records i, j are each the only record with their view, so
\* their entries can be told apart in a list
Distinguished(i, j) ==
    \A n \in DOMAIN transfers :
        /\ View(n) = View(i) => n = i
        /\ View(n) = View(j) => n = j

\* record j's entry stands before record i's entry in list
Before(list, j, i) ==
    \A k1 \in DOMAIN list, k2 \in DOMAIN list :
        (list[k1] = View(j) /\ list[k2] = View(i)) => k1 < k2

\* the lists of the summary step taken by worker w, with the records they
\* are about: the sent list at the sent query, the received list at the
\* received query
ListedAt(w) ==
    IF pc[w] = "info_sent" /\ pc'[w] = "info_recv"
    THEN {<<loc'[w].sent,
            {i \in DOMAIN transfers : transfers[i].from_user_id = req[w].userID}>>}
    ELSE IF pc[w] = "info_recv" /\ pc'[w] = "info_commit"
    THEN {<<loc'[w].received,
            {i \in DOMAIN transfers : transfers[i].to_user_id = req[w].userID}>>}
    ELSE {}

\* C24 as stated: of two records of a list, the one that committed later (the
\* later row of the table) never stands after the other
C24_NewestCommittedFirst ==
    [][\A w \in Workers : \A l \in ListedAt(w) :
          \A i \in l[2], j \in l[2] :
             (i < j /\ Distinguished(i, j)) => Before(l[1], j, i)]_vars

\* C24 amended: of two records of a list, the one with the later created_at,
\* the start time of its transaction, never stands after the other
C24_NewestCreatedFirst ==
    [][\A w \in Workers : \A l \in ListedAt(w) :
          \A i \in l[2], j \in l[2] :
             (transfers[i].created_at < transfers[j].created_at /\ Distinguished(i, j))
             => Before(l[1], j, i)]_vars

C24_Witness ==
    \E w \in Workers :
        /\ req[w].kind = "info" /\ pc[w] = "done" /\ err[w] = NoErr
        /\ Len(transfers) = 2
        /\ transfers[1].from_user_id = req[w].userID
        /\ transfers[2].from_user_id = req[w].userID
        /\ transfers[1].created_at > transfers[2].created_at
        /\ loc[w].sent = <<View(1), View(2)>>
        /\ View(1) # View(2)

\* C25: a summary that ended with an error - whichever read or the commit
\* failed - hands its caller the error and nil, and the handler answers 500
\* with the error alone; a summary without error hands over all four parts
C25_NoPartialSummary ==
    \A w \in Workers :
        (req[w].kind = "info" /\ pc[w] = "done")
        => IF err[w] # NoErr
           THEN /\ ProcessInfoResponse(w) = << >>
                /\ infoHandler(w) = [status |-> 500, errors |-> err[w], info |-> << >>]
           ELSE /\ ProcessInfoResponse(w) =
                       << [coins |-> loc[w].coins, inventory |-> loc[w].inventory,
                           sent |-> loc[w].sent, received |-> loc[w].received] >>
                /\ infoHandler(w).status = 200

C25_Witness ==
    \E w \in Workers :
        /\ req[w].kind = "info" /\ pc[w] = "done" /\ err[w] = ErrCtx
        /\ loc[w].at = "info_recv"
        /\ loc[w].coins = 800
        /\ loc[w].sent # << >>
        /\ ProcessInfoResponse(w) = << >>

\* C26: no committed transfer record has the same account as sender and
\* receiver
C26_SenderIsNotReceiver ==
    \A i \in DOMAIN transfers : transfers[i].from_user_id # transfers[i].to_user_id

C26_Witness ==
    \E w \in Workers :
        /\ req[w].kind = "send" /\ pc[w] = "done"
        /\ IdsOf(req[w].toUser) = {req[w].userID}
        /\ err[w] = ChkDifferentUsers /\ loc[w].at = "send_insert"
        /\ transfers # << >>
        /\ \A i \in DOMAIN transfers : transfers[i].from_user_id # transfers[i].to_user_id

\* C27: when the context of a purchase or transfer ends at any statement
\* before its commit, the step that aborts it changes no committed balance
\* and no ledger and leaves none of its writes behind
C27_TimeoutLeavesNoEffect ==
    [][\A w \in Workers :
          (/\ req[w].kind \in {"buy", "send"} /\ InTx(w)
           /\ pc'[w] = "done" /\ err'[w] = ErrCtx)
          => /\ <<users, purchases, transfers>>' = <<users, purchases, transfers>>
             /\ wr'[w] = NoWr]_vars

C27_Witness ==
    \E w \in Workers, v \in Workers :
        /\ req[w].kind = "buy" /\ pc[w] = "done" /\ err[w] = ErrCtx
        /\ loc[w].at = "buy_commit"
        /\ req[v].kind = "send" /\ pc[v] = "done" /\ err[v] = ErrCtx
        /\ loc[v].at = "send_insert"
        /\ nops = 3
        /\ \A u \in DOMAIN users : users[u].coins = 1000
        /\ purchases = << >> /\ transfers = << >>
        /\ wr = [x \in Workers |-> NoWr]

-----------------------------------------------------------------------------
(* The catalog seed of init.sql, run again and again.  It is applied to   *)
(* the empty table and to tables that already hold some of the starter    *)
(* rows, as an earlier seed with a shorter list leaves them.              *)

\* number of runs of the seed statement in one behaviour
MaxSeeds == 2

\* fault variant: the row is inserted whether or not its name is there
InsertAlways(t, row) ==
    [t EXCEPT !.seq = t.seq + 1, !.rows = t.rows @@ ((t.seq + 1) :> row)]

\* one row of INSERT INTO content.merch ... ON CONFLICT (merch_name) DO
\* NOTHING: the SERIAL value is taken before the conflict is detected
InsertOnConflictDoNothing(t, row) ==
    [t EXCEPT !.seq = t.seq + 1,
              !.rows = IF \E i \in DOMAIN t.rows : t.rows[i].merch_name = row.merch_name
                       THEN t.rows
                       ELSE t.rows @@ ((t.seq + 1) :> row)]

\* the rows k.. of the VALUES list, inserted in order
RECURSIVE SeedFrom(_, _)
SeedFrom(t, k) ==
    IF k > Len(Merch) THEN t
    ELSE SeedFrom(InsertOnConflictDoNothing(t, Merch[k]), k + 1)

EmptyMerch == [rows |-> << >>, seq |-> 0, runs |-> 0]

\* the table an earlier seed of the rows S of the list left
RECURSIVE SeededWith(_, _)
SeededWith(S, k) ==
    IF k = 0 THEN EmptyMerch
    ELSE IF k \in S THEN InsertOnConflictDoNothing(SeededWith(S, k - 1), Merch[k])
    ELSE SeededWith(S, k - 1)

\* the seed statement of the migration runs once more
RunSeed ==
    /\ merch.runs < MaxSeeds
    /\ merch' = [SeedFrom(merch, 1) EXCEPT !.runs = merch.runs + 1]
    /\ UNCHANGED <<users, nextID, purchases, transfers, nops, pc, req, loc, wr, err>>

SeedInit ==
    /\ users = << >>
    /\ nextID = 1
    /\ purchases = << >>
    /\ transfers = << >>
    /\ nops = 0
    /\ pc = [w \in Workers |-> "idle"]
    /\ req = [w \in Workers |-> NoReq]
    /\ loc = [w \in Workers |-> NoLoc]
    /\ wr = [w \in Workers |-> NoWr]
    /\ err = [w \in Workers |-> NoErr]
    /\ \E S \in SUBSET (1..Len(Merch)) : merch = SeededWith(S, Len(Merch))

SeedNext == RunSeed

SpecSeed == SeedInit /\ [][SeedNext]_vars

\* rows holds exactly one row per name of the seed list, with its price
OneRowPerItem(rows) ==
    /\ Cardinality(DOMAIN rows) = Len(Merch)
    /\ \A k \in 1..Len(Merch) :
          /\ Cardinality({i \in DOMAIN rows : rows[i].merch_name = Merch[k].merch_name}) = 1
          /\ \A i \in DOMAIN rows :
                rows[i].merch_name = Merch[k].merch_name => rows[i].price = Merch[k].price

\* C28: after every run of the seed the catalog has exactly one row per item
\* name with the seeded price; a run after the first changes no row, and the
\* seed of the empty table is the catalog with the ids 1..10
C28_SeedIdempotent ==
    [][/\ OneRowPerItem(merch'.rows)
       /\ merch.runs >= 1 => merch'.rows = merch.rows
       /\ merch = EmptyMerch => merch'.rows = Merch]_vars

C28_Witness ==
    /\ merch.runs = 2
    /\ merch.seq = 2 * Len(Merch)
    /\ merch.rows = Merch

-----------------------------------------------------------------------------
(* The routes behind CheckJWTMiddleware.  An Authorization header is the   *)
(* sequence of its space-separated parts; a token is what it claims and    *)
(* whether its signature and expiry verify.                                *)

GoodToken(u) == [UserID |-> u, signed |-> TRUE, expired |-> FALSE]

\* id 4 is signed into a good token but has no account row
Tokens ==
    {GoodToken(u) : u \in {0, 1, 2, 3, 4}}
    \cup {[UserID |-> 1, signed |-> FALSE, expired |-> FALSE],
          [UserID |-> 1, signed |-> TRUE, expired |-> TRUE]}

Headers ==
    {<< >>, <<"Bearer">>, <<"Basic", GoodToken(1)>>, <<"Bearer", GoodToken(1), "x">>}
    \cup {<<"Bearer", t>> : t \in Tokens}

GateItemNames == {"pink-hoody"}
GateToUsers == {"alice"}
GateAmounts == {100}

\* auth.ParseToken: jwt.ParseWithClaims verifies the signature and the expiry
ParseToken(t) ==
    IF t.signed /\ ~t.expired THEN [ok |-> TRUE, UserID |-> t.UserID]
    ELSE [ok |-> FALSE, UserID |-> 0]

\* fault variant: the claims are read without verifying the token
CheckJWTMiddlewareNoVerify(h) ==
    IF h = << >>
    THEN [status |-> 401, errors |-> "missing auth header", userID |-> 0]
    ELSE IF Len(h) # 2 \/ h[1] # "Bearer"
    THEN [status |-> 401, errors |-> "invalid auth header", userID |-> 0]
    ELSE [status |-> 200, errors |-> "", userID |-> h[2].UserID]

\* auth.CheckJWTMiddleware: the response it writes, or status 200 and the
\* user id it stores in the request context when it calls the handler
CheckJWTMiddleware(h) ==
    IF h = << >>
    THEN [status |-> 401, errors |-> "missing auth header", userID |-> 0]
    ELSE IF Len(h) # 2 \/ h[1] # "Bearer"
    THEN [status |-> 401, errors |-> "invalid auth header", userID |-> 0]
    ELSE IF ~ParseToken(h[2]).ok
    THEN [status |-> 401, errors |-> "invalid token", userID |-> 0]
    ELSE [status |-> 200, errors |-> "", userID |-> ParseToken(h[2]).UserID]

\* the middleware followed by the first lines of buyItemHandler,
\* sendCoinHandler and infoHandler: !ok || userID == 0
Gate(h) ==
    IF CheckJWTMiddleware(h).status # 200 THEN CheckJWTMiddleware(h)
    ELSE IF CheckJWTMiddleware(h).userID = 0
    THEN [status |-> 401, errors |-> "unauthorized", userID |-> 0]
    ELSE CheckJWTMiddleware(h)

\* the request is answered by the middleware or by the handler's first lines
Reject(w, kind, h) ==
    Accept(w, [NoReq EXCEPT !.kind = kind], "done", Gate(h).errors)

ServeBuy(w, h, item) ==
    IF Gate(h).status # 200 THEN Reject(w, "buy", h)
    ELSE ProcessBuy(w, Gate(h).userID, item)

ServeSendCoin(w, h, toUser, amount) ==
    IF Gate(h).status # 200 THEN Reject(w, "send", h)
    ELSE ProcessSendCoin(w, Gate(h).userID, toUser, amount)

ServeInfo(w, h) ==
    IF Gate(h).status # 200 THEN Reject(w, "info", h)
    ELSE ProcessInfo(w, Gate(h).userID)

\* alice (id 1) and bob (id 2) exist after their two authentications
GateInit ==
    /\ users = (1 :> [username |-> "alice", password |-> HashPassword("pw"),
                      coins |-> StartCoins]
                @@ 2 :> [username |-> "bob", password |-> HashPassword("pw"),
                         coins |-> StartCoins]
                @@ 3 :> [username |-> "carol", password |-> HashPassword("pw"),
                         coins |-> StartCoins])
    /\ nextID = 4
    /\ purchases = << >>
    /\ transfers = << >>
    /\ nops = 2
    /\ pc = [w \in Workers |-> "idle"]
    /\ req = [w \in Workers |-> NoReq]
    /\ loc = [w \in Workers |-> NoLoc]
    /\ wr = [w \in Workers |-> NoWr]
    /\ err = [w \in Workers |-> NoErr]
    /\ merch = [rows |-> Merch, seq |-> Len(Merch), runs |-> 1]

GateNext ==
    \E w \in Workers :
        \/ \E h \in Headers : ServeInfo(w, h)
        \/ GetUserInfo(w)
        \/ GetMerchPurchasesInfo(w)
        \/ GetSentInfo(w)
        \/ GetReceivedInfo(w)
        \/ InfoCommit(w)
        \/ \E h \in Headers, i \in GateItemNames : ServeBuy(w, h, i)
        \/ GetItemPrice(w)
        \/ BuyDebit(w)
        \/ BuyInsert(w)
        \/ BuyCommit(w)
        \/ \E h \in Headers, t \in GateToUsers, a \in GateAmounts :
              ServeSendCoin(w, h, t, a)
        \/ SendDebit(w)
        \/ GetUserID(w)
        \/ SendCredit(w)
        \/ SendInsert(w)
        \/ SendCommit(w)
        \/ CtxFail(w)

SpecGate == GateInit /\ [][GateNext]_vars

\* the header is a Bearer token whose signature and expiry verify and that
\* names an account id
ValidCredential(h) ==
    /\ Len(h) = 2
    /\ h[1] = "Bearer"
    /\ h[2].signed /\ ~h[2].expired
    /\ h[2].UserID # 0

\* C29: a buy, sendCoin or info request whose header is not a valid
\* credential is answered 401 at once: the worker never enters a storage
\* method, no transaction is opened, no balance and no ledger changes
C29_NoCredentialNoStorage ==
    [][\A w \in Workers, h \in Headers :
          (/\ ~ValidCredential(h)
           /\ \/ ServeInfo(w, h)
              \/ \E i \in GateItemNames : ServeBuy(w, h, i)
              \/ \E t \in GateToUsers, a \in GateAmounts : ServeSendCoin(w, h, t, a))
          => /\ pc'[w] = "done"
             /\ Gate(h).status = 401
             /\ err'[w] = Gate(h).errors
             /\ err'[w] \in {"missing auth header", "invalid auth header",
                             "invalid token", "unauthorized"}
             /\ <<users, nextID, purchases, transfers, wr>>' =
                    <<users, nextID, purchases, transfers, wr>>]_vars

C29_Witness ==
    \E w \in Workers, v \in Workers :
        /\ req[w].kind = "buy" /\ pc[w] = "done" /\ err[w] = "missing auth header"
        /\ req[v].kind = "send" /\ pc[v] = "done" /\ err[v] = "invalid token"
        /\ \A u \in DOMAIN users : users[u].coins = 1000
        /\ purchases = << >> /\ transfers = << >>

\* seq2 is seq1 with rows added at its end
Extends(seq2, seq1) ==
    /\ Len(seq2) >= Len(seq1)
    /\ \A n \in DOMAIN seq1 : seq2[n] = seq1[n]

\* C30: no step changes or removes a committed purchase or transfer record;
\* the step that completes a purchase adds exactly one purchase record, with
\* quantity 1, for its account and item, and no other step adds one
C30_LedgersAppendOnly ==
    [][/\ Extends(purchases', purchases)
       /\ Extends(transfers', transfers)
       /\ \A w \in Workers :
             (req[w].kind = "buy" /\ pc[w] # "done" /\ pc'[w] = "done" /\ err'[w] = NoErr)
             => /\ Len(purchases') = Len(purchases) + 1
                /\ purchases'[Len(purchases')].quantity = 1
                /\ purchases'[Len(purchases')].user_id = req[w].userID
                /\ Merch[purchases'[Len(purchases')].merch_id].merch_name = req[w].item
       /\ Len(purchases') # Len(purchases)
          => \E w \in Workers :
                req[w].kind = "buy" /\ pc[w] # "done" /\ pc'[w] = "done" /\ err'[w] = NoErr]_vars

C30_Witness ==
    \E w \in Workers :
        /\ req[w].kind = "buy" /\ pc[w] = "done" /\ err[w] = NoErr
        /\ Len(purchases) = 2
        /\ purchases[1].user_id = purchases[2].user_id
        /\ purchases[1].merch_id = purchases[2].merch_id
        /\ purchases[1].quantity = 1 /\ purchases[2].quantity = 1
        /\ users[req[w].userID].coins = 0

\* C31: a transfer holds a write on a balance, even an uncommitted one, only
\* when its recipient name has an account and that account is not the sender
C31_ResolveBeforeDebit ==
    \A w \in Workers :
        (req[w].kind = "send" /\ wr[w] # NoWr)
        => /\ IdsOf(req[w].toUser) # {}
           /\ IdsOf(req[w].toUser) # {req[w].userID}

\* C32: a transfer writes the receiver's balance only after it has written
\* the sender's; a transfer that ended with insufficient funds failed at the
\* debit or the credit statement itself, and at the debit when the amount is
\* positive
C32_DebitBeforeCredit ==
    \A w \in Workers :
        (req[w].kind = "send" /\ req[w].userID \in DOMAIN users)
        => /\ \A i \in DOMAIN wr[w] : i # req[w].userID => req[w].userID \in DOMAIN wr[w]
           /\ (pc[w] = "done" /\ err[w] = UsersCoinsCheck)
              => /\ loc[w].at \in {"send_debit", "send_credit"}
                 /\ req[w].amount > 0 => loc[w].at = "send_debit"

C32_Witness ==
    \E w \in Workers :
        /\ req[w].kind = "send" /\ pc[w] = "done" /\ err[w] = UsersCoinsCheck
        /\ req[w].amount = 1100 /\ loc[w].at = "send_debit"
        /\ \E i \in IdsOf(req[w].toUser) : i # req[w].userID /\ users[i].coins = 1000
        /\ users[req[w].userID].coins = 1000

\* C33: a purchase or transfer whose caller id matches no account row does
\* not get past its debit statement: the update that affects no row fails
C33_ZeroRowsFails ==
    \A w \in Workers :
        (req[w].kind \in {"buy", "send"} /\ req[w].userID \notin DOMAIN users)
        => pc[w] \notin {"buy_insert", "buy_commit", "send_getid", "send_credit",
                         "send_insert", "send_commit"}

\* C34: two transfers of a positive amount within the sender's balance,
\* running in opposite directions between the same two accounts, never wait for each other in a cycle, and neither of them is
\* ended by the deadlock detector
C34_NoCircularWait ==
    (\A w \in Workers :
        req[w].kind = "send"
        => /\ req[w].userID \in DOMAIN users
           /\ req[w].amount > 0 /\ req[w].amount <= users[req[w].userID].coins)
    => \A w \in Workers :
           req[w].kind = "send"
           => /\ ~Deadlocked(w)
              /\ err[w] # ErrDeadlock

\* C35: a transfer with a negative amount never commits: the step that ends
\* it leaves every committed balance and the transfer ledger as they were,
\* it ends with an error, and no stored transfer has an amount of zero or less
C35_NegativeNeverCommits ==
    /\ [](\A i \in DOMAIN transfers : transfers[i].amount > 0)
    /\ [](\A w \in Workers :
            (req[w].kind = "send" /\ req[w].amount < 0)
            => /\ pc[w] # "send_commit"
               /\ pc[w] = "done" => err[w] # NoErr)
    /\ [][\A w \in Workers :
            (req[w].kind = "send" /\ req[w].amount < 0 /\ pc[w] # pc'[w])
            => (users' = users /\ transfers' = transfers)]_vars

C35_Witness ==
    \E w \in Workers :
        /\ req[w].kind = "send" /\ req[w].amount = -100
        /\ pc[w] = "done" /\ err[w] = AmountCheck /\ loc[w].at = "send_insert"
        /\ req[w].userID \in DOMAIN users /\ loc[w].toID \in DOMAIN users
        /\ users[req[w].userID].coins = StartCoins
        /\ users[loc[w].toID].coins = StartCoins
        /\ transfers = << >>

\* C36: a step of a purchase by X changes no balance but X's, and a step of
\* a transfer from X to Y changes no balance but X's and Y's; neither changes
\* the set of accounts, a name or a password, or the catalog; a purchase
\* leaves the transfer ledger alone and a transfer the purchase ledger
C36_Frame ==
    [][\A w \in Workers :
        (pc[w] # pc'[w] /\ InTx(w) /\ req[w].kind \in {"buy", "send"})
        => /\ merch' = merch
           /\ DOMAIN users' = DOMAIN users
           /\ \A i \in DOMAIN users :
                /\ users'[i].username = users[i].username
                /\ users'[i].password = users[i].password
                /\ users'[i].coins # users[i].coins
                   => \/ i = req[w].userID
                      \/ req[w].kind = "send" /\ i \in IdsOf(req[w].toUser)
           /\ req[w].kind = "buy" => transfers' = transfers
           /\ req[w].kind = "send" => purchases' = purchases]_vars

C36_Witness ==
    /\ \E w \in Workers :
         /\ req[w].kind = "send" /\ req[w].userID = 2 /\ req[w].toUser = "alice"
         /\ pc[w] = "done" /\ err[w] = NoErr
    /\ \E w \in Workers :
         /\ req[w].kind = "buy" /\ req[w].userID = 3
         /\ pc[w] = "done" /\ err[w] = NoErr
    /\ users[1].coins = StartCoins + 100
    /\ users[2].coins = StartCoins - 100
    /\ users[3].coins = StartCoins - 500
    /\ Len(purchases) = 1 /\ Len(transfers) = 1
    /\ merch.rows = Merch

\* C37: a purchase or transfer whose caller id matches no account row never
\* commits: none of its steps changes a committed balance, a ledger or the
\* catalog, it ends with an error, and no stored purchase or transfer
\* references an id without an account row
C37_MissingCallerNeverCommits ==
    /\ [](\A i \in DOMAIN purchases : purchases[i].user_id \in DOMAIN users)
    /\ [](\A i \in DOMAIN transfers :
            /\ transfers[i].from_user_id \in DOMAIN users
            /\ transfers[i].to_user_id \in DOMAIN users)
    /\ [](\A w \in Workers :
            (req[w].kind \in {"buy", "send"} /\ req[w].userID \notin DOMAIN users)
            => /\ pc[w] \notin {"buy_commit", "send_commit"}
               /\ pc[w] = "done" => err[w] # NoErr)
    /\ [][\A w \in Workers :
            (/\ req[w].kind \in {"buy", "send"} /\ req[w].userID \notin DOMAIN users
             /\ InTx(w) /\ pc[w] # pc'[w])
            => /\ users' = users
               /\ purchases' = purchases
               /\ transfers' = transfers
               /\ merch' = merch]_vars

\* the caller without an account row sent 100 to alice: the credit ran inside
\* the transaction, the INSERT failed on fk_from_user, alice still has 1000
C37_Witness ==
    \E w \in Workers :
        /\ req[w].kind = "send" /\ req[w].userID = 4 /\ req[w].userID \notin DOMAIN users
        /\ req[w].toUser = "alice" /\ loc[w].toID = 1
        /\ pc[w] = "done" /\ err[w] = FkViolation /\ loc[w].at = "send_insert"
        /\ users[1].coins = StartCoins
        /\ transfers = << >>

\* C38: for every finished sendCoin request, whatever the error, the handler
\* has written exactly one response
C38_OneResponse ==
    \A w \in Workers :
        (req[w].kind = "send" /\ pc[w] = "done")
        => Len(sendCoinHandler(err[w])) = 1

====
